---- MODULE Spec2Model ----
(***************************************************************************)
(* Rong-E agent: the MCP provider lifecycle and the agent loop of          *)
(* RongEAgent (src/agent/agents/agent.py).                                 *)
(*                                                                         *)
(* asyncio runs one task at a time and switches tasks only at an await, so *)
(* every action below is the code that runs between two suspension points  *)
(* of one call: it starts where an await returns (or where the call        *)
(* begins) and runs up to the next await or to the end of the call.        *)
(***************************************************************************)
EXTENDS Integers, Sequences, FiniteSets, TLC

VARIABLES
    active_mcp_servers, \* the live provider map, a dict in insertion order
    tools,              \* self.tools, the merged tool list
    tool_map,           \* self.tool_map, lowercased name -> tool handle
    llm,                \* self.llm
    llm_with_tools,     \* self.llm_with_tools
    procs,              \* every provider process spawned so far, by pid
    call,               \* per task: the frame of its sync/shutdown call
    lastCall,           \* summary of the call that ended last
    messages,           \* self.messages, the conversation history
    turn,               \* the frame of the user turn (_execute_run_loop)
    system_prompt,      \* self.system_prompt
    client,             \* what a connection sent last, and the reply to it
    current_provider,   \* self.current_provider
    current_model,      \* self.current_model
    google_agent,       \* self.google_agent: the GoogleAgent and its run
    result              \* what the last direct call returned or raised

vars == <<active_mcp_servers, tools, tool_map, llm, llm_with_tools, procs,
          call, lastCall, messages, turn, system_prompt, client,
          current_provider, current_model, google_agent, result>>

-----------------------------------------------------------------------------
(* Bounds of the model *)

MaxProcs == 2    \* provider processes spawned in one behaviour
MaxVaried == 1   \* steps of one turn where the model asks for another batch
                 \* than DefaultBatch, a tool raises, or a reconcile of
                 \* another connection completes

(* The values the inputs are drawn from *)

None == "None"
Absent == "absent"
\* self.llm_with_tools = None: no model is bound to the tools
Unbound == [llm |-> None, tools |-> << >>]
Names == {"fs", "git"}          \* provider names a config may request
Commands == {"npx", "node"}     \* launch commands (stand for command/args/env)
Tasks == {1}                    \* the task that runs the calls

\* a requested configuration: config["mcpServers"], name -> command
Configs == [Names -> Commands \cup {Absent}]

\* str.lower() on the tool names of the model
Lower(s) ==
    CASE s = "Pwd" -> "pwd"
      [] s = "Read_File" -> "read_file"
      [] OTHER -> s

\* self.base_tools: get_tools() plus google_task_executor
BaseTools ==
    << [name |-> "pwd", src |-> 0],
       [name |-> "google_task_executor", src |-> 0] >>

\* what load_mcp_tools can return for the session of process pid
ToolListings(pid) ==
    { << [name |-> "read_file", src |-> pid] >>,
      << [name |-> "Pwd", src |-> pid], [name |-> "Read_File", src |-> pid] >> }

-----------------------------------------------------------------------------
(* Helpers over the live map *)

RECURSIVE SeqNames(_)
SeqNames(s) ==
    IF s = << >> THEN {} ELSE {Head(s).name} \cup SeqNames(Tail(s))

\* set(self.active_mcp_servers.keys())
LiveNames(active) == SeqNames(active)

\* self.active_mcp_servers[name]
Entry(active, n) ==
    CHOOSE e \in {active[i] : i \in DOMAIN active} : e.name = n

\* dict.pop(name): the other entries keep their order
RECURSIVE Without(_, _)
Without(active, n) ==
    IF active = << >> THEN << >>
    ELSE IF Head(active).name = n THEN Tail(active)
    ELSE <<Head(active)>> \o Without(Tail(active), n)

RECURSIVE ProviderTools(_)
ProviderTools(active) ==
    IF active = << >> THEN << >>
    ELSE Head(active).tools \o ProviderTools(Tail(active))

\* a map that keeps the first tool of a lowercased name
RECURSIVE BuildMapFirstWins(_)
BuildMapFirstWins(ts) ==
    IF ts = << >> THEN << >>
    ELSE LET m == BuildMapFirstWins(SubSeq(ts, 1, Len(ts) - 1))
             t == ts[Len(ts)]
             k == Lower(t.name)
         IN [x \in DOMAIN m \cup {k} |->
                IF x \in DOMAIN m THEN m[x] ELSE t]

\* the loop of refresh_active_tools that fills tool_map: a later tool
\* with the same lowercased name replaces the earlier one
RECURSIVE BuildMap(_)
BuildMap(ts) ==
    IF ts = << >> THEN << >>
    ELSE LET m == BuildMap(SubSeq(ts, 1, Len(ts) - 1))
             t == ts[Len(ts)]
             k == Lower(t.name)
         IN [x \in DOMAIN m \cup {k} |-> IF x = k THEN t ELSE m[x]]

RequestedNames(req) == {n \in Names : req[n] # Absent}

NoResults == [n \in Names |-> [status |-> "none", error |-> None]]
NoPids == [n \in Names |-> 0]

IdleCall ==
    [pc |-> "idle", kind |-> "none", requested |-> [n \in Names |-> Absent],
     current_server_names |-> {}, to_add |-> {}, to_remove |-> {},
     todo_add |-> {}, todo_remove |-> {}, keys |-> << >>,
     results |-> NoResults, name |-> None, pid |-> 0,
     error |-> None, hung |-> FALSE, outcome |-> "none",
     \* history of the call, read only by the properties
     active0 |-> << >>, spawned |-> NoPids, popped |-> NoPids,
     refreshed |-> FALSE, sameAsPrev |-> FALSE, prevClean |-> FALSE,
     observed |-> {}, cancelled |-> FALSE]

\* the state one step works on: the frame c of the running call and the
\* agent's fields
Machine(t) ==
    [c |-> call[t], active |-> active_mcp_servers, tools |-> tools,
     tool_map |-> tool_map, llm_with_tools |-> llm_with_tools, procs |-> procs]

\* what the properties remember of the call that ended last
Summary(c) ==
    [kind |-> c.kind, requested |-> c.requested,
     allConnected |-> /\ c.outcome = "returned"
                      /\ \A n \in RequestedNames(c.requested) :
                            c.results[n].status = "connected"]

Commit(t, m) ==
    /\ call' = [call EXCEPT ![t] = m.c]
    /\ active_mcp_servers' = m.active
    /\ tools' = m.tools
    /\ tool_map' = m.tool_map
    /\ llm_with_tools' = m.llm_with_tools
    /\ procs' = m.procs
    /\ lastCall' = IF m.c.pc = "done" THEN Summary(m.c) ELSE lastCall
    /\ UNCHANGED <<llm, messages, turn, system_prompt, client,
                   current_provider, current_model, google_agent, result>>

-----------------------------------------------------------------------------
(* The conversation history and the frame of a user turn *)

max_iterations == 15

NoTool == [name |-> None, src |-> 0]

Message(role, content, calls, id, name) ==
    [role |-> role, content |-> content, calls |-> calls, id |-> id,
     name |-> name]

\* the prompt create_system_prompt() builds in __init__, and the prompts
\* it builds for a mode or a user name
InitialPrompt == "system_prompt"
Prompts == {InitialPrompt, "system_prompt_for_mode"}

\* no connection has sent anything yet
NoClient == [sent |-> << >>, reply |-> None, out |-> << >>]

\* SystemMessage(content=self.system_prompt)
SystemMessage(content) == Message("system", content, << >>, 0, None)
HumanMessage(content) == Message("human", content, << >>, 0, None)
AIMessage(content, tool_calls) == Message("ai", content, tool_calls, 0, None)
ToolMessage(content, tool_call_id, name) ==
    Message("tool", content, << >>, tool_call_id, name)

\* GoogleAgent.__init__ (messages: the roles of its history; final_response
\* and the frame of run are set by run)
NewGoogleAgent ==
    [llm |-> None, llm_with_tools |-> None, credentials |-> None,
     connected |-> FALSE, tools |-> << >>, messages |-> <<"system">>,
     pc |-> "idle", iteration |-> 0, final_response |-> << >>]

NoResult == [op |-> None, outcome |-> "none", value |-> << >>]

\* RongEAgent.__init__, lines 74-81
SubAgentInit ==
    /\ current_provider = None
    /\ current_model = None
    /\ google_agent = NewGoogleAgent
    /\ result = NoResult

IdleTurn ==
    [pc |-> "idle", callback |-> FALSE, user_query |-> None, iteration |-> 0,
     batch |-> << >>, idx |-> 0, selected_tool |-> NoTool,
     response |-> None, outcome |-> "none",
     \* history of the turn, read only by the properties and the bounds
     invocations |-> 0, widget_calls |-> 0, events |-> << >>,
     model_raised |-> FALSE, callback_failed |-> FALSE,
     catalog |-> << >>, resolved_in |-> << >>, varied |-> 0]

-----------------------------------------------------------------------------
(* The provider processes and their resource stacks *)

\* how `await stack.aclose()` can end: it returns, and then the process is
\* gone; or it raises, and then nothing is known about the process
CloseOutcomes == {"ok", "raised_released", "raised_running"}

\* AsyncExitStack.aclose() of the stack that owns process pid (pid = 0:
\* the stack is empty, nothing to release)
Closed(ps, pid, outcome) ==
    IF pid = 0 THEN ps
    ELSE [ps EXCEPT ![pid].stack = IF outcome = "ok" THEN "closed"
                                   ELSE "close_failed",
                    ![pid].running = (outcome = "raised_running")]

\* stdio_client(server_params) entered: a child process is running
Spawned(ps, n, command) ==
    Append(ps, [name |-> n, command |-> command, running |-> TRUE,
                stack |-> "open"])

\* self.active_mcp_servers[name] = {...}: a new key goes last, an existing
\* key keeps its place
Put(active, e) ==
    IF e.name \in LiveNames(active)
    THEN [i \in DOMAIN active |->
            IF active[i].name = e.name THEN e ELSE active[i]]
    ELSE Append(active, e)

-----------------------------------------------------------------------------
(* RongEAgent.refresh_active_tools *)

refresh_active_tools(m) ==
    LET all_tools == BaseTools \o ProviderTools(m.active)
    IN [m EXCEPT !.tools = all_tools,
                 !.tool_map = BuildMap(all_tools),
                 !.llm_with_tools =
                     IF llm = None THEN Unbound
                     ELSE [llm |-> llm, tools |-> all_tools],
                 !.c.refreshed = TRUE]

-----------------------------------------------------------------------------
(* RongEAgent.sync_mcp_servers *)

\* a diff that starts every requested name, live or not
ToAddAll(requested_server_names, current_server_names) ==
    requested_server_names

\* step 1, the diff: by name only
ToAdd(requested_server_names, current_server_names) ==
    requested_server_names \ current_server_names

\* a diff that stops every live name, requested or not
ToRemoveAll(requested_server_names, current_server_names) ==
    current_server_names

ToRemove(requested_server_names, current_server_names) ==
    current_server_names \ requested_server_names

\* an exception leaves the call
Raise(m) ==
    [m EXCEPT !.c.pc = "done", !.c.outcome = "raised"]

\* a guard that compares the live names before and after instead
StateChangedLive(m) ==
    LiveNames(m.active) # m.c.current_server_names

\* step 5 guard: `if to_add or to_remove`
StateChanged(m) ==
    m.c.to_add # {} \/ m.c.to_remove # {}

\* a return without step 4: the names already running are not reported
SyncFinishAddedOnly(m) ==
    LET m2 == IF StateChanged(m) THEN refresh_active_tools(m) ELSE m
    IN [m2 EXCEPT !.c.pc = "done", !.c.outcome = "returned"]

\* steps 4 and 5 and the return
SyncFinish(m) ==
    LET c == m.c
        kept == RequestedNames(c.requested) \cap c.current_server_names
        res == [n \in Names |->
                  IF n \in kept
                  THEN [status |-> "connected", error |-> None]
                  ELSE c.results[n]]
        m1 == [m EXCEPT !.c.results = res]
        m2 == IF StateChanged(m1) THEN refresh_active_tools(m1) ELSE m1
    IN [m2 EXCEPT !.c.pc = "done", !.c.outcome = "returned"]

\* step 2, one removal up to its await: pop the entry, then close its stack
RemovePop(m, n) ==
    IF n \notin LiveNames(m.active)
    THEN Raise(m)     \* dict.pop of a missing key: KeyError
    ELSE [m EXCEPT !.active = Without(m.active, n),
                   !.c.name = n,
                   !.c.pid = Entry(m.active, n).stack,
                   !.c.popped[n] = Entry(m.active, n).stack,
                   !.c.todo_remove = @ \ {n},
                   !.c.pc = "await_close"]

\* step 3, one addition up to the first await of _start_single_server
StartBegin(m, n) ==
    [m EXCEPT !.c.name = n, !.c.pid = 0, !.c.error = None,
              !.c.hung = FALSE,
              !.c.todo_add = @ \ {n},
              !.c.pc = "await_spawn"]

\* the loops of steps 2 and 3 run on from here to the next await; a Python
\* set has no specified iteration order
SyncLoop(m) ==
    IF m.c.todo_remove # {}
    THEN {RemovePop(m, n) : n \in m.c.todo_remove}
    ELSE IF m.c.todo_add # {}
    THEN {StartBegin(m, n) : n \in m.c.todo_add}
    ELSE {SyncFinish(m)}

\* _start_single_server has returned (success, error): record the result
StartReturned(m, success) ==
    [m EXCEPT !.c.results[m.c.name] =
        IF success THEN [status |-> "connected", error |-> None]
        ELSE [status |-> "error", error |-> m.c.error]]

\* lines 368-373: register the connection
Register(m, mcp_tools) ==
    [m EXCEPT !.active = Put(m.active,
                  [name |-> m.c.name, session |-> m.c.pid,
                   stack |-> m.c.pid, tools |-> mcp_tools])]

\* a start that has stored the connection before it failed
StartFailedRegistered(m, reason) ==
    [m EXCEPT !.active = Put(m.active,
                  [name |-> m.c.name, session |-> m.c.pid,
                   stack |-> m.c.pid, tools |-> << >>]),
              !.c.error = reason, !.c.hung = FALSE,
              !.c.pc = "await_cleanup"]

\* the except clause, then the finally clause up to `await stack.aclose()`
StartFailed(m, reason) ==
    [m EXCEPT !.c.error = reason, !.c.hung = FALSE,
              !.c.pc = "await_cleanup"]

\* a finally clause that leaves the stack of a failed start open
CleanupSkipped(m, outcome) ==
    m

\* the finally clause: `if not success: await stack.aclose()`
Cleanup(m, outcome) ==
    [m EXCEPT !.procs = Closed(m.procs, m.c.pid, outcome)]

\* the processes a call in progress may still spawn
Unspawned(c) ==
    IF c.pc \in {"idle", "done", "cancelled_closing", "cancelled"} THEN 0
    ELSE Cardinality(c.todo_add) + (IF c.pc = "await_spawn" THEN 1 ELSE 0)

RECURSIVE SumUnspawned(_)
SumUnspawned(ts) ==
    IF ts = {} THEN 0
    ELSE LET t == CHOOSE x \in ts : TRUE
         IN Unspawned(call[t]) + SumUnspawned(ts \ {t})

SyncBegin(t, req) ==
    /\ call[t].pc \in {"idle", "done"}
    /\ LET cur == LiveNames(active_mcp_servers)
           reqn == RequestedNames(req)
           c0 == [IdleCall EXCEPT
                    !.kind = "sync", !.requested = req,
                    !.current_server_names = cur,
                    !.to_add = ToAdd(reqn, cur),
                    !.to_remove = ToRemove(reqn, cur),
                    !.todo_add = ToAdd(reqn, cur),
                    !.todo_remove = ToRemove(reqn, cur),
                    !.active0 = active_mcp_servers,
                    !.sameAsPrev = (lastCall.kind = "sync"
                                    /\ lastCall.requested = req),
                    !.prevClean = lastCall.allConnected]
       IN /\ Len(procs) + SumUnspawned(DOMAIN call) + Cardinality(c0.to_add)
                <= MaxProcs
          /\ \E m \in SyncLoop([Machine(t) EXCEPT !.c = c0]) : Commit(t, m)

\* `await asyncio.shield(server_data["stack"].aclose())` is over; an
\* Exception it raised is caught and logged
CloseReturns(t, outcome) ==
    /\ call[t].pc = "await_close"
    /\ LET m0 == Machine(t)
           m1 == [m0 EXCEPT !.procs = Closed(m0.procs, m0.c.pid, outcome)]
       IN \E m \in SyncLoop(m1) : Commit(t, m)

\* `await stack.enter_async_context(stdio_client(server_params))` is over
SpawnReturns(t, ok) ==
    /\ call[t].pc = "await_spawn"
    /\ LET m0 == Machine(t)
           n == m0.c.name
           pid == Len(m0.procs) + 1
       IN IF ok
          THEN Commit(t, [m0 EXCEPT
                   !.procs = Spawned(m0.procs, n, m0.c.requested[n]),
                   !.c.pid = pid, !.c.spawned[n] = pid,
                   !.c.pc = "await_session"])
          ELSE \* nothing is on the stack: the finally clause's aclose()
               \* returns at once, and the loop of step 3 goes on
               \E m \in SyncLoop(StartReturned(
                            [m0 EXCEPT !.c.error = "launch"], FALSE)) :
                   Commit(t, m)

\* `await stack.enter_async_context(ClientSession(read, write))` is over
SessionReturns(t, ok) ==
    /\ call[t].pc = "await_session"
    /\ Commit(t, IF ok THEN [Machine(t) EXCEPT !.c.pc = "await_init"]
                 ELSE StartFailed(Machine(t), "session"))

\* `await session.initialize()` is over
InitReturns(t, ok) ==
    /\ call[t].pc = "await_init"
    /\ ~call[t].hung
    /\ Commit(t, IF ok THEN [Machine(t) EXCEPT !.c.pc = "await_load"]
                 ELSE StartFailed(Machine(t), "initialize"))

\* the awaits the block `async with asyncio.timeout(10)` covers
TimeoutScope == {"await_session", "await_init"}

\* the 10 s of asyncio.timeout(10) are over: TimeoutError
TimeoutFires(t) ==
    /\ call[t].pc \in TimeoutScope
    /\ Commit(t, StartFailed(Machine(t), "timeout"))

\* the provider stops answering the request the call is waiting on
ProviderHangs(t) ==
    /\ call[t].pc \in {"await_init", "await_load"}
    /\ ~call[t].hung
    /\ Commit(t, [Machine(t) EXCEPT !.c.hung = TRUE])

\* `await load_mcp_tools(session)` is over
LoadReturns(t, ok) ==
    /\ call[t].pc = "await_load"
    /\ ~call[t].hung
    /\ IF ok
       THEN \E ts \in ToolListings(call[t].pid) :
              \E m \in SyncLoop(StartReturned(Register(Machine(t), ts), TRUE)) :
                 Commit(t, m)
       ELSE Commit(t, StartFailed(Machine(t), "load_tools"))

\* the finally clause's `await stack.aclose()` is over: when it returns the
\* start reports (False, error_msg), when it raises the exception leaves
\* _start_single_server and sync_mcp_servers
CleanupReturns(t, outcome) ==
    /\ call[t].pc = "await_cleanup"
    /\ LET m1 == Cleanup(Machine(t), outcome)
       IN IF outcome = "ok"
          THEN \E m \in SyncLoop(StartReturned(m1, FALSE)) : Commit(t, m)
          ELSE Commit(t, Raise(m1))

-----------------------------------------------------------------------------
(* RongEAgent.shutdown_all_servers *)

RECURSIVE KeyList(_)
KeyList(active) ==
    IF active = << >> THEN << >>
    ELSE <<Head(active).name>> \o KeyList(Tail(active))

\* the loop over keys up to its await, or the refresh and the return
ShutdownLoop(m) ==
    IF m.c.keys = << >>
    THEN [refresh_active_tools(m) EXCEPT !.c.pc = "done",
                                         !.c.outcome = "returned"]
    ELSE LET n == Head(m.c.keys)
         IN IF n \notin LiveNames(m.active)
            THEN Raise(m)     \* dict.pop of a missing key: KeyError
            ELSE [m EXCEPT !.active = Without(m.active, n),
                           !.c.name = n,
                           !.c.pid = Entry(m.active, n).stack,
                           !.c.popped[n] = Entry(m.active, n).stack,
                           !.c.keys = Tail(@),
                           !.c.pc = "await_shutdown_close"]

ShutdownBegin(t) ==
    /\ call[t].pc \in {"idle", "done"}
    /\ LET c0 == [IdleCall EXCEPT
                    !.kind = "shutdown",
                    !.current_server_names = LiveNames(active_mcp_servers),
                    !.keys = KeyList(active_mcp_servers),
                    !.active0 = active_mcp_servers]
       IN Commit(t, ShutdownLoop([Machine(t) EXCEPT !.c = c0]))

\* `await server_data["stack"].aclose()` is over: nothing catches what it
\* raises
ShutdownCloseReturns(t, outcome) ==
    /\ call[t].pc = "await_shutdown_close"
    /\ LET m0 == Machine(t)
           m1 == [m0 EXCEPT !.procs = Closed(m0.procs, m0.c.pid, outcome)]
       IN Commit(t, IF outcome = "ok" THEN ShutdownLoop(m1) ELSE Raise(m1))

-----------------------------------------------------------------------------
(* The agent after RongEAgent.__init__, and its calls one after another *)

Init ==
    /\ active_mcp_servers = << >>
    /\ tools = BaseTools
    /\ tool_map = BuildMap(BaseTools)
    /\ llm = None
    /\ llm_with_tools = Unbound
    /\ procs = << >>
    /\ call = [t \in Tasks |-> IdleCall]
    /\ lastCall = Summary(IdleCall)
    /\ messages = <<SystemMessage(InitialPrompt)>>
    /\ turn = IdleTurn
    /\ system_prompt = InitialPrompt
    /\ client = NoClient
    /\ SubAgentInit

Next ==
    \E t \in Tasks :
        \/ \E req \in Configs : SyncBegin(t, req)
        \/ \E o \in CloseOutcomes : CloseReturns(t, o)
        \/ \E ok \in BOOLEAN : SpawnReturns(t, ok)
        \/ \E ok \in BOOLEAN : SessionReturns(t, ok)
        \/ \E ok \in BOOLEAN : InitReturns(t, ok)
        \/ TimeoutFires(t)
        \/ ProviderHangs(t)
        \/ \E ok \in BOOLEAN : LoadReturns(t, ok)
        \/ \E o \in CloseOutcomes : CleanupReturns(t, o)
        \/ ShutdownBegin(t)
        \/ \E o \in CloseOutcomes : ShutdownCloseReturns(t, o)

Spec == Init /\ [][Next]_vars

-----------------------------------------------------------------------------
(* Two connections of server.py use the one agent: each runs one
   sync_mcp_servers call, and the calls interleave at their awaits *)

Overlapping == {1, 2}

\* the agent after an earlier reconcile that returned: no, one or two
\* providers are live
LiveAtStart ==
    LET fs == [name |-> "fs", session |-> 1, stack |-> 1,
               tools |-> << [name |-> "read_file", src |-> 1] >>]
        git == [name |-> "git", session |-> 2, stack |-> 2,
                tools |-> << [name |-> "Pwd", src |-> 2],
                             [name |-> "Read_File", src |-> 2] >>]
    IN { << >>, <<fs>>, <<fs, git>> }

RECURSIVE ProcsOf(_)
ProcsOf(active) ==
    IF active = << >> THEN << >>
    ELSE Spawned(ProcsOf(SubSeq(active, 1, Len(active) - 1)),
                 active[Len(active)].name, "npx")

InitConc ==
    /\ active_mcp_servers \in LiveAtStart
    /\ tools = BaseTools \o ProviderTools(active_mcp_servers)
    /\ tool_map = BuildMap(tools)
    /\ llm = None
    /\ llm_with_tools = Unbound
    /\ procs = ProcsOf(active_mcp_servers)
    /\ call = [t \in Overlapping |-> IdleCall]
    /\ lastCall = Summary(IdleCall)
    /\ messages = <<SystemMessage(InitialPrompt)>>
    /\ turn = IdleTurn
    /\ system_prompt = InitialPrompt
    /\ client = NoClient
    /\ SubAgentInit

NextConc ==
    \E t \in Overlapping :
        \/ \E req \in Configs : call[t].pc = "idle" /\ SyncBegin(t, req)
        \/ \E o \in CloseOutcomes : CloseReturns(t, o)
        \/ \E ok \in BOOLEAN : SpawnReturns(t, ok)
        \/ \E ok \in BOOLEAN : SessionReturns(t, ok)
        \/ \E ok \in BOOLEAN : InitReturns(t, ok)
        \/ TimeoutFires(t)
        \/ ProviderHangs(t)
        \/ \E ok \in BOOLEAN : LoadReturns(t, ok)
        \/ \E o \in CloseOutcomes : CleanupReturns(t, o)

SpecConc == InitConc /\ [][NextConc]_vars

-----------------------------------------------------------------------------
(* Another connection reads the agent while a call is suspended *)

\* RongEAgent.get_server_statuses
get_server_statuses ==
    [n \in LiveNames(active_mcp_servers) |->
        [status |-> "connected", error |-> None]]

\* the mcp_status_request handler of server.py, run while call t is
\* suspended; the names it reports are remembered in the frame
StatusRequest(t) ==
    /\ call[t].pc \notin {"idle", "done"}
    /\ call' = [call EXCEPT ![t].observed = @ \cup {DOMAIN get_server_statuses}]
    /\ UNCHANGED <<active_mcp_servers, tools, tool_map, llm, llm_with_tools,
                   procs, lastCall, messages, turn, system_prompt, client,
                   current_provider, current_model, google_agent, result>>

NextRead ==
    \/ Next
    \/ \E t \in Tasks : StatusRequest(t)

SpecRead == Init /\ [][NextRead]_vars

-----------------------------------------------------------------------------
(* The task that runs sync_mcp_servers is cancelled: CancelledError is
   raised at the await where the call is suspended *)

SyncAwaits ==
    {"await_close", "await_spawn", "await_session", "await_init",
     "await_load", "await_cleanup"}

\* how an aclose() that is cut short by CancelledError can leave the process
InterruptedOutcomes == {"raised_released", "raised_running"}

\* `await stack.aclose()` of the finally block (line 385) is interrupted
\* and CancelledError leaves the call
CancelledInCleanup(m, outcome) ==
    [m EXCEPT !.procs = Closed(m.procs, m.c.pid, outcome),
              !.c.pc = "cancelled", !.c.outcome = "cancelled"]

Cancel(t) ==
    /\ call[t].kind = "sync"
    /\ call[t].pc \in SyncAwaits
    /\ ~call[t].cancelled
    /\ LET m0 == [Machine(t) EXCEPT !.c.cancelled = TRUE]
           pc == call[t].pc
       IN CASE pc = "await_close" ->
                 \* `except Exception` does not catch CancelledError; the
                 \* shielded aclose() goes on in its own task
                 Commit(t, [m0 EXCEPT !.c.pc = "cancelled_closing",
                                      !.c.outcome = "cancelled"])
            [] pc = "await_cleanup" ->
                 \E o \in InterruptedOutcomes :
                    Commit(t, CancelledInCleanup(m0, o))
            [] OTHER ->
                 \* caught by `except (Exception, asyncio.CancelledError)`
                 Commit(t, StartFailed(m0, "cancelled"))

\* the shielded aclose() of a cancelled call is over
BackgroundCloseReturns(t, outcome) ==
    /\ call[t].pc = "cancelled_closing"
    /\ LET m0 == Machine(t)
       IN Commit(t, [m0 EXCEPT !.procs = Closed(m0.procs, m0.c.pid, outcome),
                               !.c.pc = "cancelled"])

NextCancel ==
    \/ Next
    \/ \E t \in Tasks : Cancel(t)
    \/ \E t \in Tasks : \E o \in CloseOutcomes : BackgroundCloseReturns(t, o)

SpecCancel == Init /\ [][NextCancel]_vars

-----------------------------------------------------------------------------
(* RongEAgent._execute_run_loop: one user turn.  A step works on
   s = [tr |-> the frame of the turn, msgs |-> self.messages] and reads
   self.tool_map as it is when the step runs. *)

\* the tool-call batches the model can ask for, by the names it emits
DefaultBatch == <<"Read_File", "Pwd">>
Batches == {DefaultBatch, <<"pwd", "pwd">>}

\* ai_msg.tool_calls: the model gives every call an id
ToolCalls(batch, reply) ==
    [i \in 1..Len(batch) |-> [name |-> batch[i], id |-> 10 * reply + i]]

\* the number of assistant messages in the history; the ids of a reply are
\* made of the number of the reply, so that no two replies of a session
\* share an id (within one turn it is the iteration)
Replies(msgs) == Cardinality({i \in DOMAIN msgs : msgs[i].role = "ai"})

TurnState == [tr |-> turn, msgs |-> messages]

\* the batch in progress is the one ToolCalls makes of DefaultBatch
InDefaultBatch ==
    [i \in DOMAIN turn.batch |-> turn.batch[i].name] = DefaultBatch

TurnCommit(s) ==
    /\ turn' = s.tr
    /\ messages' = s.msgs
    /\ UNCHANGED <<active_mcp_servers, tools, tool_map, llm, llm_with_tools,
                   procs, call, lastCall, system_prompt, client,
                   current_provider, current_model, google_agent, result>>

Push(s, msg) == [s EXCEPT !.msgs = Append(@, msg)]

\* `return <response>`
Return(s, response) ==
    [s EXCEPT !.tr.pc = "done", !.tr.outcome = "returned",
              !.tr.response = response]

\* `if callback: await callback("response", data)` and `return data`
Respond(s, data, pc) ==
    IF s.tr.callback THEN [s EXCEPT !.tr.response = data, !.tr.pc = pc]
    ELSE Return(s, data)

\* a handler that records the error in the history as well
ExceptAppends(s) ==
    Respond(Push(s, AIMessage("error_data", << >>)), "error_data",
            "await_cb_error_response")

\* the handler `except Exception as e` of the loop
Except(s) == Respond(s, "error_data", "await_cb_error_response")

\* a loop head that tests `iteration <= self.max_iterations`
LoopTestInclusive(s) == s.tr.iteration <= max_iterations
\* `while iteration < self.max_iterations`
LoopTest(s) == s.tr.iteration < max_iterations

\* the loop head: `iteration += 1` and the model is invoked; when the test
\* fails the function runs off its end and returns None
LoopHead(s) ==
    IF LoopTest(s)
    THEN [s EXCEPT !.tr.iteration = @ + 1, !.tr.pc = "await_model",
                   !.tr.invocations = @ + 1,
                   !.tr.catalog = <<tool_map>>, !.tr.resolved_in = << >>]
    ELSE Return(s, None)

\* an unknown tool that is skipped without a message
ToolNotFoundSilent(s) == [s EXCEPT !.tr.idx = @ + 1]

\* an unknown tool that is answered and then leaves the `for` loop
ToolNotFoundSkipsRest(s) ==
    LET tool_call == s.tr.batch[s.tr.idx]
        tool_name == Lower(tool_call.name)
    IN [Push(s, ToolMessage([kind |-> "not_found", tool |-> tool_name],
                            tool_call.id, tool_name))
          EXCEPT !.tr.idx = Len(s.tr.batch) + 1]
\* the `else` branch of `if selected_tool`
ToolNotFound(s) ==
    LET tool_call == s.tr.batch[s.tr.idx]
        tool_name == Lower(tool_call.name)
    IN [Push(s, ToolMessage([kind |-> "not_found", tool |-> tool_name],
                            tool_call.id, tool_name))
          EXCEPT !.tr.idx = @ + 1]

\* the body of `for tool_call in ai_msg.tool_calls`, from the call at
\* s.tr.idx up to the next await
RECURSIVE Dispatch(_)
RECURSIVE Lookup(_)
Dispatch(s) ==
    IF s.tr.idx > Len(s.tr.batch) THEN LoopHead(s)
    ELSE IF s.tr.callback THEN [s EXCEPT !.tr.pc = "await_cb_tool_call"]
    ELSE Lookup(s)

\* `selected_tool = self.tool_map.get(tool_name)`
Lookup(s) ==
    LET tool_name == Lower(s.tr.batch[s.tr.idx].name)
        s1 == [s EXCEPT !.tr.resolved_in = Append(@, tool_map)]
    IN IF tool_name \in DOMAIN tool_map
       THEN [s1 EXCEPT !.tr.selected_tool = tool_map[tool_name],
                       !.tr.pc = "await_tool"]
       ELSE Dispatch(ToolNotFound(s1))

\* agent.run(query, mode, callback=...) begins
RunBegin(has_callback) ==
    /\ turn.pc = "idle"
    /\ LET s0 == [TurnState EXCEPT !.tr.callback = has_callback,
                                   !.tr.user_query = "query"]
       IN IF llm = None \/ llm_with_tools = Unbound
          THEN TurnCommit(Respond(s0, "no_llm", "await_cb_no_llm"))
          ELSE TurnCommit(LoopHead(Push(s0, HumanMessage("query"))))

\* `await self.llm_with_tools.ainvoke(self.messages)` raises
ModelRaises ==
    /\ turn.pc = "await_model"
    /\ TurnCommit(Except([TurnState EXCEPT !.tr.model_raised = TRUE]))

\* the model replies without tool calls: the reply is the answer, and
\* _generate_widgets_with_llm invokes the structured model
ModelAnswers ==
    /\ turn.pc = "await_model"
    /\ TurnCommit([Push(TurnState, AIMessage("answer", << >>))
                     EXCEPT !.tr.pc = "await_widgets",
                            !.tr.invocations = @ + 1,
                            !.tr.widget_calls = @ + 1])

\* the model replies with the tool calls of batch
ModelCallsTools(batch) ==
    /\ turn.pc = "await_model"
    /\ batch # DefaultBatch => turn.varied < MaxVaried
    /\ LET calls == ToolCalls(batch, Replies(messages) + 1)
           s1 == [Push(TurnState, AIMessage("thought", calls))
                    EXCEPT !.tr.batch = calls, !.tr.idx = 1,
                           !.tr.varied = IF batch = DefaultBatch THEN @
                                         ELSE @ + 1]
       IN TurnCommit(IF turn.callback
                     THEN [s1 EXCEPT !.tr.pc = "await_cb_thought"]
                     ELSE Dispatch(s1))

\* `await structured_llm.ainvoke(prompt)` is over; an exception is caught
\* and gives no widgets
WidgetsReturn(ok) ==
    /\ turn.pc = "await_widgets"
    /\ TurnCommit(Respond(TurnState,
                          IF ok THEN "answer_with_widgets" ELSE "answer",
                          "await_cb_response"))

\* a tool whose exception leaves the `for` loop and reaches the handler of
\* the turn
ToolReturnsPropagates(ok) ==
    /\ turn.pc = "await_tool"
    /\ ~ok => (turn.varied < MaxVaried \/ ~InDefaultBatch)
    /\ LET tool_call == turn.batch[turn.idx]
           tool_name == Lower(tool_call.name)
           s0 == [TurnState EXCEPT !.tr.varied = IF ok \/ ~InDefaultBatch
                                                 THEN @ ELSE @ + 1]
           s1 == Push(s0, ToolMessage([kind |-> "output",
                                       tool |-> turn.selected_tool],
                                      tool_call.id, tool_name))
       IN TurnCommit(IF ~ok THEN Except(s0)
                     ELSE IF turn.callback
                     THEN [s1 EXCEPT !.tr.pc = "await_cb_tool_result"]
                     ELSE Dispatch([s1 EXCEPT !.tr.idx = @ + 1]))

\* the awaited tool returns (ok) or raises: `except Exception as e` makes
\* the error text the output.  A raise in the default batch is one of the
\* MaxVaried variations of the turn; a batch other than the default one
\* already is.
ToolReturns(ok) ==
    /\ turn.pc = "await_tool"
    /\ ~ok => (turn.varied < MaxVaried \/ ~InDefaultBatch)
    /\ LET tool_call == turn.batch[turn.idx]
           tool_name == Lower(tool_call.name)
           tool_output == [kind |-> IF ok THEN "output" ELSE "error",
                           tool |-> turn.selected_tool]
           s1 == [Push(TurnState,
                       ToolMessage(tool_output, tool_call.id, tool_name))
                    EXCEPT !.tr.varied = IF ok \/ ~InDefaultBatch
                                         THEN @ ELSE @ + 1]
       IN TurnCommit(IF turn.callback
                     THEN [s1 EXCEPT !.tr.pc = "await_cb_tool_result"]
                     ELSE Dispatch([s1 EXCEPT !.tr.idx = @ + 1]))

CallbackPcs ==
    {"await_cb_thought", "await_cb_tool_call", "await_cb_tool_result",
     "await_cb_response", "await_cb_error_response", "await_cb_no_llm"}

EventOf(pc) ==
    CASE pc = "await_cb_thought" -> "thought"
      [] pc = "await_cb_tool_call" -> "tool_call"
      [] pc = "await_cb_tool_result" -> "tool_result"
      [] OTHER -> "response"

\* `await callback(type, content)` is over: the event was delivered, or the
\* callback raised
CallbackReturns(ok) ==
    /\ turn.pc \in CallbackPcs
    /\ LET pc == turn.pc
           ref == IF EventOf(pc) = "response" THEN turn.response
                  ELSE IF pc = "await_cb_thought" THEN "thought"
                  ELSE Lower(turn.batch[turn.idx].name)
           s1 == [TurnState EXCEPT
                    !.tr.events = Append(@, [type |-> EventOf(pc),
                                             content |-> ref])]
       IN IF ok
          THEN CASE pc = "await_cb_thought" -> TurnCommit(Dispatch(s1))
                 [] pc = "await_cb_tool_call" -> TurnCommit(Lookup(s1))
                 [] pc = "await_cb_tool_result" ->
                      TurnCommit(Dispatch([s1 EXCEPT !.tr.idx = @ + 1]))
                 [] OTHER -> TurnCommit(Return(s1, turn.response))
          ELSE IF pc \in {"await_cb_error_response", "await_cb_no_llm"}
               THEN \* outside the try block, or inside its handler
                    TurnCommit([TurnState EXCEPT !.tr.pc = "done",
                                                 !.tr.outcome = "raised",
                                                 !.tr.response = None,
                                                 !.tr.callback_failed = TRUE])
               ELSE TurnCommit(Except([TurnState EXCEPT
                                          !.tr.callback_failed = TRUE]))

\* the provider a call of another connection starts during the turn (the
\* turn sees a provider only through its tools, not through its name)
ElsewhereNames == {"fs"}

\* While the turn is suspended, a sync_mcp_servers call of another
\* connection runs from its begin to its end: it starts provider n, which
\* connects, and rebuilds the catalog
SyncElsewhereAdds(n) ==
    /\ turn.pc \notin {"idle", "done"}
    /\ turn.varied < MaxVaried
    /\ n \notin LiveNames(active_mcp_servers)
    /\ Len(procs) < MaxProcs
    /\ \E mcp_tools \in ToolListings(Len(procs) + 1) :
         LET m0 == [Machine(1) EXCEPT !.procs = Spawned(procs, n, "npx"),
                                      !.c.name = n,
                                      !.c.pid = Len(procs) + 1]
             m == refresh_active_tools(Register(m0, mcp_tools))
         IN /\ active_mcp_servers' = m.active
            /\ tools' = m.tools
            /\ tool_map' = m.tool_map
            /\ llm_with_tools' = m.llm_with_tools
            /\ procs' = m.procs
    /\ turn' = [turn EXCEPT !.varied = @ + 1]
    /\ UNCHANGED <<llm, call, lastCall, messages, system_prompt, client,
                   current_provider, current_model, google_agent, result>>

\* the agent after __init__, with or without a model set by set_llm
InitLoop ==
    /\ active_mcp_servers = << >>
    /\ tools = BaseTools
    /\ tool_map = BuildMap(BaseTools)
    /\ llm \in {None, "gemini"}
    /\ llm_with_tools = IF llm = None THEN Unbound
                        ELSE [llm |-> llm, tools |-> BaseTools]
    /\ procs = << >>
    /\ call = [t \in Tasks |-> IdleCall]
    /\ lastCall = Summary(IdleCall)
    /\ messages = <<SystemMessage(InitialPrompt)>>
    /\ turn = IdleTurn
    /\ system_prompt = InitialPrompt
    /\ client = NoClient
    /\ current_provider = (IF llm = None THEN None ELSE "gemini")
    /\ current_model = (IF llm = None THEN None ELSE "flash")
    /\ google_agent = [NewGoogleAgent EXCEPT !.llm = llm]
    /\ result = NoResult

NextLoop ==
    \/ \E has_callback \in BOOLEAN : RunBegin(has_callback)
    \/ ModelRaises
    \/ ModelAnswers
    \/ \E batch \in Batches : ModelCallsTools(batch)
    \/ \E ok \in BOOLEAN : WidgetsReturn(ok)
    \/ \E ok \in BOOLEAN : ToolReturns(ok)
    \/ \E ok \in BOOLEAN : CallbackReturns(ok)
    \/ \E n \in ElsewhereNames : SyncElsewhereAdds(n)

SpecLoop == InitLoop /\ [][NextLoop]_vars

-----------------------------------------------------------------------------
(* Turns one after the other on the same history.  MaxTurns bounds the
   turns of a session, and the model asks for tools only in the first
   MaxVaried iterations of a turn. *)

MaxTurns == 2

Turns(msgs) == Cardinality({i \in DOMAIN msgs : msgs[i].role = "human"})

\* agent.run(query, mode, callback=...) after an earlier turn is over
RunAgain(has_callback) ==
    /\ turn.pc = "done"
    /\ Turns(messages) < MaxTurns
    /\ LET s0 == [TurnState EXCEPT !.tr = [IdleTurn EXCEPT
                                             !.callback = has_callback,
                                             !.user_query = "query"]]
       IN IF llm = None \/ llm_with_tools = Unbound
          THEN TurnCommit(Respond(s0, "no_llm", "await_cb_no_llm"))
          ELSE TurnCommit(LoopHead(Push(s0, HumanMessage("query"))))

NextTurns ==
    \/ \E has_callback \in BOOLEAN : RunBegin(has_callback)
    \/ \E has_callback \in BOOLEAN : RunAgain(has_callback)
    \/ ModelRaises
    \/ ModelAnswers
    \/ turn.iteration <= MaxVaried /\ ModelCallsTools(DefaultBatch)
    \/ \E ok \in BOOLEAN : WidgetsReturn(ok)
    \/ ToolReturns(TRUE)
    \/ \E ok \in BOOLEAN : CallbackReturns(ok)

SpecTurns == InitLoop /\ [][NextTurns]_vars

-----------------------------------------------------------------------------
(* set_llm, the Google credentials and GoogleAgent.run.  set_llm and
   GoogleAgent.run hold no await (the model is called with invoke), so each
   runs without another handler in between; run is written one model reply
   per step, and no other step is taken while it is in progress.  The
   model asks for a tool that is not bound in the first reply only. *)

google_max_iterations == 10

Providers == {"gemini", "bogus"}
KnownProviders == {"gemini", "openai", "ollama", "anthropic"}
Models == {"flash", "pro"}

\* the chat model object built for provider and model
NewLlm(provider, model) ==
    CASE provider = "gemini" /\ model = "flash" -> "gemini/flash"
      [] provider = "gemini" /\ model = "pro" -> "gemini/pro"
      [] OTHER -> "other"

Raised(op, error) == [op |-> op, outcome |-> "raised", value |-> <<error>>]
Returned_(op, value) == [op |-> op, outcome |-> "returned", value |-> value]

GoogleIdle == google_agent.pc \in {"idle", "done"}

\* how a set_llm call can go once the provider is known: "ok", the test
\* message raises, or bind_tools of refresh_active_tools raises
SetLlmOutcomes == {"ok", "validation_raises", "bind_raises"}

\* a set_llm that assigns the model before it validates it
SetLlmAssignsFirst(provider, model, outcome) ==
    /\ GoogleIdle
    /\ LET new_llm == NewLlm(provider, model)
           all_tools == BaseTools \o ProviderTools(active_mcp_servers)
       IN IF provider \notin KnownProviders
          THEN /\ result' = Raised("set_llm", "unknown_provider")
               /\ UNCHANGED <<llm, current_provider, current_model,
                              google_agent, tools, tool_map, llm_with_tools>>
          ELSE /\ llm' = new_llm
               /\ current_provider' = provider
               /\ current_model' = model
               /\ IF outcome = "validation_raises"
                  THEN /\ result' = Raised("set_llm", "validation_failed")
                       /\ UNCHANGED <<google_agent, tools, tool_map,
                                      llm_with_tools>>
                  ELSE /\ google_agent' = [google_agent EXCEPT !.llm = new_llm]
                       /\ tools' = all_tools
                       /\ tool_map' = BuildMap(all_tools)
                       /\ IF outcome = "bind_raises"
                          THEN /\ result' = Raised("set_llm", "bind_tools")
                               /\ UNCHANGED llm_with_tools
                          ELSE /\ result' = Returned_("set_llm", << >>)
                               /\ llm_with_tools' =
                                     [llm |-> new_llm, tools |-> all_tools]
    /\ UNCHANGED <<active_mcp_servers, procs, call, lastCall, messages, turn,
                   system_prompt, client>>

\* RongEAgent.set_llm(provider, model, api_key)
SetLlm(provider, model, outcome) ==
    /\ GoogleIdle
    /\ LET new_llm == NewLlm(provider, model)
           all_tools == BaseTools \o ProviderTools(active_mcp_servers)
       IN IF provider \notin KnownProviders
          THEN /\ result' = Raised("set_llm", "unknown_provider")
               /\ UNCHANGED <<llm, current_provider, current_model,
                              google_agent, tools, tool_map, llm_with_tools>>
          ELSE IF outcome = "validation_raises"
          THEN /\ result' = Raised("set_llm", "validation_failed")
               /\ UNCHANGED <<llm, current_provider, current_model,
                              google_agent, tools, tool_map, llm_with_tools>>
          ELSE /\ llm' = new_llm
               /\ current_provider' = provider
               /\ current_model' = model
               /\ google_agent' = [google_agent EXCEPT !.llm = new_llm]
               /\ tools' = all_tools
               /\ tool_map' = BuildMap(all_tools)
               /\ IF outcome = "bind_raises"
                  THEN /\ result' = Raised("set_llm", "bind_tools")
                       /\ UNCHANGED llm_with_tools
                  ELSE /\ result' = Returned_("set_llm", << >>)
                       /\ llm_with_tools' =
                             [llm |-> new_llm, tools |-> all_tools]
    /\ UNCHANGED <<active_mcp_servers, procs, call, lastCall, messages, turn,
                   system_prompt, client>>

\* GoogleAgent.is_authenticated(): auth_manager.check_connected()
is_authenticated == google_agent.credentials # None

\* how auth_manager.authenticate can go: the credentials are valid; none
\* can be read (get_google_credentials raises); or they are read, assigned
\* and found invalid
AuthOutcomes == {"ok", "unreadable", "invalid"}

\* the credentials message of the websocket handler: authenticate_google
Credentials(outcome) ==
    /\ GoogleIdle
    /\ IF is_authenticated
       THEN /\ google_agent' = [google_agent EXCEPT !.connected = TRUE]
            /\ client' = [client EXCEPT !.reply = "credentials_success"]
       ELSE CASE outcome = "ok" ->
                   /\ google_agent' = [google_agent EXCEPT
                                         !.credentials = "valid",
                                         !.connected = TRUE]
                   /\ client' = [client EXCEPT !.reply = "credentials_success"]
              [] outcome = "unreadable" ->
                   /\ google_agent' = [google_agent EXCEPT !.connected = FALSE]
                   /\ client' = [client EXCEPT !.reply = "credentials_error"]
              [] OTHER ->
                   /\ google_agent' = [google_agent EXCEPT
                                         !.credentials = "invalid",
                                         !.connected = FALSE]
                   /\ client' = [client EXCEPT !.reply = "credentials_error"]
    /\ UNCHANGED <<active_mcp_servers, tools, tool_map, llm, llm_with_tools,
                   procs, call, lastCall, messages, turn, system_prompt,
                   current_provider, current_model, result>>

\* the revoke_credentials message of the websocket handler:
\* `agent.revoke_google_credentials()` makes a coroutine object that is not
\* awaited, so its body never runs; credentials_revoked is sent
RevokeCredentials ==
    /\ GoogleIdle
    /\ client' = [client EXCEPT !.reply = "credentials_revoked"]
    /\ UNCHANGED <<active_mcp_servers, tools, tool_map, llm, llm_with_tools,
                   procs, call, lastCall, messages, turn, system_prompt,
                   current_provider, current_model, google_agent, result>>

GoogleTools == <<"gmail_search">>

\* the value run returns after the loop: `if final_response is not None`
\* is true of every string, the empty one included
GoogleReturnValue(final_response) == final_response

\* the end of run: the history is reset and the value is returned
GoogleFinish(g) ==
    /\ google_agent' = [g EXCEPT !.messages = <<"system">>, !.pc = "done"]
    /\ result' = Returned_("google_run", GoogleReturnValue(g.final_response))

GoogleFrame ==
    UNCHANGED <<active_mcp_servers, tools, tool_map, llm, llm_with_tools,
                procs, call, lastCall, messages, turn, system_prompt, client,
                current_provider, current_model>>

\* GoogleAgent.run(task_description) up to the first model invocation
GoogleRunBegin ==
    /\ GoogleIdle
    /\ IF google_agent.llm = None
       THEN /\ result' = Returned_("google_run", <<"no_llm">>)
            /\ google_agent' = [google_agent EXCEPT !.pc = "done"]
       ELSE IF ~google_agent.connected
       THEN /\ result' = Returned_("google_run", <<"not_authenticated">>)
            /\ google_agent' = [google_agent EXCEPT !.pc = "done"]
       ELSE /\ result' = NoResult
            /\ google_agent' = [google_agent EXCEPT
                                  !.messages = <<"system", "human">>,
                                  !.tools = GoogleTools,
                                  !.llm_with_tools = google_agent.llm,
                                  !.final_response = << >>,
                                  !.iteration = 1,
                                  !.pc = "invoke"]
    /\ GoogleFrame

\* `self.llm_with_tools.invoke(self.messages)` raises: `return f"Error: {e}"`
GoogleModelRaises ==
    /\ google_agent.pc = "invoke"
    /\ google_agent' = [google_agent EXCEPT !.pc = "done"]
    /\ result' = Returned_("google_run", <<"error">>)
    /\ GoogleFrame

\* the reply has a tool call, for a tool that is bound or for one that is
\* not; then the loop test
GoogleModelCallsTool(found) ==
    /\ google_agent.pc = "invoke"
    /\ LET g == [google_agent EXCEPT
                   !.messages = @ \o <<"ai", "tool">>,
                   !.final_response =
                       Append(@, IF found THEN "tool_output" ELSE "not_found")]
       IN IF g.iteration < google_max_iterations
          THEN /\ google_agent' = [g EXCEPT !.iteration = @ + 1]
               /\ UNCHANGED result
          ELSE GoogleFinish(g)
    /\ GoogleFrame

\* the reply has no tool call: its content ends the response, `break`
GoogleModelAnswers ==
    /\ google_agent.pc = "invoke"
    /\ GoogleFinish([google_agent EXCEPT
                       !.messages = Append(@, "ai"),
                       !.final_response = Append(@, "content")])
    /\ GoogleFrame

NextGoogle ==
    \/ \E provider \in Providers, model \in Models, o \in SetLlmOutcomes :
          SetLlm(provider, model, o)
    \/ \E o \in AuthOutcomes : Credentials(o)
    \/ RevokeCredentials
    \/ GoogleRunBegin
    \/ GoogleModelRaises
    \/ \E found \in BOOLEAN :
          /\ found \/ google_agent.iteration = 1
          /\ GoogleModelCallsTool(found)
    \/ GoogleModelAnswers

SpecGoogle == Init /\ [][NextGoogle]_vars

-----------------------------------------------------------------------------
(* The session: reset_session and update_system_prompt are synchronous and
   can be called whenever the turn is suspended at an await (another
   connection's handler runs on the same agent), and before and after it.
   A call made while the turn is in flight is one of the MaxVaried
   variations of the turn. *)

InFlight == turn.pc \notin {"idle", "done"}

Vary == IF InFlight THEN [turn EXCEPT !.varied = @ + 1] ELSE turn

\* reset_session()
ResetSession ==
    /\ InFlight => turn.varied < MaxVaried
    /\ messages' = <<SystemMessage(system_prompt)>>
    /\ turn' = Vary
    /\ UNCHANGED <<active_mcp_servers, tools, tool_map, llm, llm_with_tools,
                   procs, call, lastCall, system_prompt, client,
                   current_provider, current_model, google_agent, result>>

\* an update that leaves the first message as it is
UpdateSystemPromptStale(p) ==
    /\ InFlight => turn.varied < MaxVaried
    /\ system_prompt' = p
    /\ turn' = Vary
    /\ UNCHANGED <<active_mcp_servers, tools, tool_map, llm, llm_with_tools,
                   procs, call, lastCall, messages, client,
                   current_provider, current_model, google_agent, result>>

\* update_system_prompt(mode_system_prompt, user_name): create_system_prompt
\* builds the prompt p and the first message is replaced
UpdateSystemPrompt(p) ==
    /\ InFlight => turn.varied < MaxVaried
    /\ system_prompt' = p
    /\ messages' = IF messages # << >>
                   THEN [messages EXCEPT ![1] = SystemMessage(p)]
                   ELSE messages
    /\ turn' = Vary
    /\ UNCHANGED <<active_mcp_servers, tools, tool_map, llm, llm_with_tools,
                   procs, call, lastCall, client,
                   current_provider, current_model, google_agent, result>>

\* the turn on the catalog it started with and with the default batch, and
\* the two session calls
NextSession ==
    \/ \E has_callback \in BOOLEAN : RunBegin(has_callback)
    \/ ModelRaises
    \/ ModelAnswers
    \/ ModelCallsTools(DefaultBatch)
    \/ \E ok \in BOOLEAN : WidgetsReturn(ok)
    \/ \E ok \in BOOLEAN : ToolReturns(ok)
    \/ \E ok \in BOOLEAN : CallbackReturns(ok)
    \/ ResetSession
    \/ \E p \in Prompts : UpdateSystemPrompt(p)

SpecSession == InitLoop /\ [][NextSession]_vars

-----------------------------------------------------------------------------
(* MCPServerConfig.validate_command.  A command is a string, modelled as the
   sequence of its characters; the commands tried are all strings of at
   most MaxLen characters of Alphabet. *)

MaxLen == 4

Alphabet == {" ", "/", ".", "n", "p", "x"}

Strings == UNION {[1..n -> Alphabet] : n \in 0..MaxLen}

\* str.strip(): leading and trailing whitespace removed
RECURSIVE lstrip(_)
lstrip(v) == IF v # << >> /\ Head(v) = " " THEN lstrip(Tail(v)) ELSE v
RECURSIVE rstrip(_)
rstrip(v) ==
    IF v # << >> /\ v[Len(v)] = " " THEN rstrip(SubSeq(v, 1, Len(v) - 1))
    ELSE v
strip(v) == rstrip(lstrip(v))

\* str.startswith(prefix)
startswith(v, prefix) ==
    Len(v) >= Len(prefix) /\ SubSeq(v, 1, Len(prefix)) = prefix

\* `sub in v` for strings
Contains(v, sub) ==
    \E i \in 1..(Len(v) - Len(sub) + 1) :
        SubSeq(v, i, i + Len(sub) - 1) = sub

allowed_commands ==
    { <<"n", "p", "x">>, <<"n", "o", "d", "e">>,
      <<"p", "y", "t", "h", "o", "n">>, <<"p", "y", "t", "h", "o", "n", "3">>,
      <<"u", "v", "x">>, <<"c", "a", "r", "g", "o">>, <<"b", "u", "n">> }

\* what the validator does: it returns the stripped command or raises
Returns(v) == [checked |-> TRUE, raised |-> None, value |-> v]
Raises(msg) == [checked |-> TRUE, raised |-> msg, value |-> << >>]
NoVerdict == [checked |-> FALSE, raised |-> None, value |-> << >>]

validate_command(v0) ==
    LET v == strip(v0)
    IN IF v = << >> THEN Raises("Command cannot be empty")
       ELSE IF startswith(v, <<"/">>)
            THEN IF Contains(v, <<".", ".">>)
                 THEN Raises("Path traversal not allowed in command")
                 ELSE Returns(v)
       ELSE IF v \notin allowed_commands /\ Contains(v, <<"/">>)
            THEN Raises("Invalid command")
       ELSE Returns(v)

\* MCPServerConfig(command=client.sent) runs the field validator
ValidateCommand ==
    /\ ~client.reply.checked
    /\ client' = [client EXCEPT !.reply = validate_command(client.sent)]
    /\ UNCHANGED <<active_mcp_servers, tools, tool_map, llm, llm_with_tools,
                   procs, call, lastCall, messages, turn, system_prompt,
                   current_provider, current_model, google_agent, result>>

InitValidate ==
    /\ active_mcp_servers = << >>
    /\ tools = BaseTools
    /\ tool_map = BuildMap(BaseTools)
    /\ llm = None
    /\ llm_with_tools = Unbound
    /\ procs = << >>
    /\ call = [t \in Tasks |-> IdleCall]
    /\ lastCall = Summary(IdleCall)
    /\ messages = <<SystemMessage(InitialPrompt)>>
    /\ turn = IdleTurn
    /\ system_prompt = InitialPrompt
    /\ \E v \in Strings : client = [sent |-> v, reply |-> NoVerdict]
    /\ SubAgentInit

NextValidate == ValidateCommand

SpecValidate == InitValidate /\ [][NextValidate]_vars

-----------------------------------------------------------------------------
(* The mcp_config message of the websocket handler.  data["config"] gives
   every name of Names either no entry or an entry with a command string;
   client.sent holds the last config received, client.reply the type of
   the handler's last reply ("pending" while it awaits the sync) and
   client.out the messages sent for that config, in the order sent. *)

npx == <<"n", "p", "x">>

\* the command strings a config can hold
RawCommands == {npx, <<" ">> \o npx, << >>, <<"/", ".", ".">>}

NoEntry == [present |-> FALSE, command |-> << >>]

RawConfigs ==
    [Names -> {NoEntry} \cup {[present |-> TRUE, command |-> v] :
                                v \in RawCommands}]

Entries(data) == {n \in Names : data[n].present}

\* a validation that accepts every command as it is
validate_mcp_config_unchecked(data) == Returns(data)

\* MCPConfig.model_validate(data): every entry's command goes through
\* validate_command and is replaced by what it returns; any failure becomes
\* ValueError("Invalid MCP config: ...")
validate_mcp_config(data) ==
    IF \E n \in Entries(data) : validate_command(data[n].command).raised # None
    THEN Raises("Invalid MCP config")
    ELSE Returns([n \in Names |->
                    IF data[n].present
                    THEN [present |-> TRUE,
                          command |-> validate_command(data[n].command).value]
                    ELSE NoEntry])

\* the launch command a validated command string stands for
CommandOf(v) ==
    CASE v = npx -> "npx"
      [] v = <<"n", "o", "d", "e">> -> "node"
      [] OTHER -> "other"

\* MCPConfig.to_agent_format(): name -> command of the entries
to_agent_format(servers) ==
    [n \in Names |-> IF servers[n].present THEN CommandOf(servers[n].command)
                     ELSE Absent]

\* websocket.send_text(json.dumps({"type": ..., "content": {"servers": ...}}))
Sent(type, servers) == [type |-> type, servers |-> servers]
NoStatuses == [n \in Names |-> "none"]

\* [{"name": n, "status": "connecting"} for n in requested_names]
connecting_statuses(servers) ==
    [n \in Names |-> IF servers[n].present THEN "connecting" ELSE "none"]

\* [{"name": n, "status": r["status"], ...} for n, r in results.items()]
final_statuses(results) == [n \in Names |-> results[n].status]

\* `elif data["data_type"] == "mcp_config"` up to the first await that is
\* not a send: the config is validated; on ValueError mcp_sync_error is
\* sent, otherwise sync_mcp_servers is called with the agent format
McpConfig(t, data) ==
    /\ client.reply # "pending"
    /\ LET validated_config == validate_mcp_config(data)
       IN IF validated_config.raised # None
          THEN /\ client' = [sent |-> <<data>>, reply |-> "mcp_sync_error",
                             out |-> <<Sent("mcp_sync_error", NoStatuses)>>]
               /\ UNCHANGED <<active_mcp_servers, tools, tool_map, llm,
                              llm_with_tools, procs, call, lastCall, messages,
                              turn, system_prompt,
                              current_provider, current_model, google_agent, result>>
          ELSE /\ client' = [sent |-> <<data>>, reply |-> "pending",
                             out |-> <<Sent("mcp_server_status",
                                            connecting_statuses(validated_config.value))>>]
               /\ call[t].pc \in {"idle", "done"}
               /\ LET req == to_agent_format(validated_config.value)
                      cur == LiveNames(active_mcp_servers)
                      reqn == RequestedNames(req)
                      c0 == [IdleCall EXCEPT
                               !.kind = "sync", !.requested = req,
                               !.current_server_names = cur,
                               !.to_add = ToAdd(reqn, cur),
                               !.to_remove = ToRemove(reqn, cur),
                               !.todo_add = ToAdd(reqn, cur),
                               !.todo_remove = ToRemove(reqn, cur),
                               !.active0 = active_mcp_servers,
                               !.sameAsPrev = (lastCall.kind = "sync"
                                               /\ lastCall.requested = req),
                               !.prevClean = lastCall.allConnected]
                  IN /\ Len(procs) + SumUnspawned(DOMAIN call)
                           + Cardinality(c0.to_add) <= MaxProcs
                     /\ \E m \in SyncLoop([Machine(t) EXCEPT !.c = c0]) :
                          /\ call' = [call EXCEPT ![t] = m.c]
                          /\ active_mcp_servers' = m.active
                          /\ tools' = m.tools
                          /\ tool_map' = m.tool_map
                          /\ llm_with_tools' = m.llm_with_tools
                          /\ procs' = m.procs
                          /\ lastCall' = IF m.c.pc = "done" THEN Summary(m.c)
                                         ELSE lastCall
                          /\ UNCHANGED <<llm, messages, turn, system_prompt,
                                         current_provider, current_model, google_agent, result>>

\* sync_mcp_servers is over: the final statuses and mcp_sync_success are
\* sent, or mcp_sync_error by `except Exception`
McpConfigReplies(t) ==
    /\ client.reply = "pending"
    /\ call[t].pc = "done"
    /\ client' = IF call[t].outcome = "returned"
                 THEN [client EXCEPT
                         !.reply = "mcp_sync_success",
                         !.out = @ \o <<Sent("mcp_server_status",
                                             final_statuses(call[t].results)),
                                        Sent("mcp_sync_success", NoStatuses)>>]
                 ELSE [client EXCEPT
                         !.reply = "mcp_sync_error",
                         !.out = Append(@, Sent("mcp_sync_error", NoStatuses))]
    /\ UNCHANGED <<active_mcp_servers, tools, tool_map, llm, llm_with_tools,
                   procs, call, lastCall, messages, turn, system_prompt,
                   current_provider, current_model, google_agent, result>>

\* the handler with providers that start and stop without failure (their
\* failures are the subject of Spec)
NextConfig ==
    \E t \in Tasks :
        \/ \E data \in RawConfigs : McpConfig(t, data)
        \/ McpConfigReplies(t)
        \/ CloseReturns(t, "ok")
        \/ SpawnReturns(t, TRUE)
        \/ SessionReturns(t, TRUE)
        \/ InitReturns(t, TRUE)
        \/ LoadReturns(t, TRUE)

SpecConfig == Init /\ [][NextConfig]_vars

\* the handler with providers whose tool listing can fail and whose exit
\* stack can fail to close
NextStatus ==
    \E t \in Tasks :
        \/ \E data \in RawConfigs : McpConfig(t, data)
        \/ McpConfigReplies(t)
        \/ CloseReturns(t, "ok")
        \/ SpawnReturns(t, TRUE)
        \/ SessionReturns(t, TRUE)
        \/ InitReturns(t, TRUE)
        \/ \E ok \in BOOLEAN : LoadReturns(t, ok)
        \/ \E o \in CloseOutcomes : CleanupReturns(t, o)

SpecStatus == Init /\ [][NextStatus]_vars

-----------------------------------------------------------------------------
(* A provider process that exits on its own.  No code of the agent waits
   for the child or reads its state: the exit changes the process and
   nothing else.  The providers otherwise start and stop without failure
   (their failures are the subject of Spec). *)

ProcessExits(pid) ==
    /\ procs[pid].running
    /\ procs[pid].stack = "open"
    /\ \E i \in DOMAIN active_mcp_servers : active_mcp_servers[i].stack = pid
    /\ procs' = [procs EXCEPT ![pid].running = FALSE]
    /\ UNCHANGED <<active_mcp_servers, tools, tool_map, llm, llm_with_tools,
                   call, lastCall, messages, turn, system_prompt, client,
                   current_provider, current_model, google_agent, result>>

NextExit ==
    \/ \E t \in Tasks :
          \/ \E req \in Configs : SyncBegin(t, req)
          \/ CloseReturns(t, "ok")
          \/ SpawnReturns(t, TRUE)
          \/ SessionReturns(t, TRUE)
          \/ InitReturns(t, TRUE)
          \/ LoadReturns(t, TRUE)
    \/ \E pid \in DOMAIN procs : ProcessExits(pid)

SpecExit == Init /\ [][NextExit]_vars

-----------------------------------------------------------------------------
(* Properties of the provider lifecycle *)

Frames == {call[t] : t \in Tasks}
SyncFrames == {c \in Frames : c.kind = "sync"}
Ended(c) == c.pc = "done"
Returned(c) == c.pc = "done" /\ c.outcome = "returned"
Quiescent == \A c \in Frames : c.pc \in {"idle", "done"}
Owners(pid) ==
    {i \in DOMAIN active_mcp_servers : active_mcp_servers[i].stack = pid}
Kept(c) == RequestedNames(c.requested) \cap c.current_server_names
Reported(c, n) == c.results[n].status \in {"connected", "error"}

\* C1: whenever no sync_mcp_servers or shutdown_all_servers call is in
\* progress, every provider process that is still running is owned by
\* exactly one entry of active_mcp_servers.
C1_NoOrphanProcess ==
    Quiescent =>
        \A pid \in DOMAIN procs :
            procs[pid].running => Cardinality(Owners(pid)) = 1

\* C2, as claimed: a sync_mcp_servers call whose requested configuration is
\* that of the sync_mcp_servers call just before it starts no provider
\* process and stops none.
C2_SecondCallNoChurn ==
    \A c \in SyncFrames :
        c.sameAsPrev => c.spawned = NoPids /\ c.popped = NoPids

\* C2, amended: such a second call stops no provider, starts a process only
\* for a name that was not live when it began, and starts none at all when
\* the first call returned with every requested name connected.
C2_SecondCallNoChurnAfterCleanCall ==
    \A c \in SyncFrames :
        c.sameAsPrev =>
            /\ c.popped = NoPids
            /\ \A n \in Names :
                 c.spawned[n] # 0 => n \notin c.current_server_names
            /\ c.prevClean => c.spawned = NoPids

C2_Witness ==
    \E c \in SyncFrames :
        /\ Returned(c)
        /\ c.sameAsPrev
        /\ c.prevClean
        /\ RequestedNames(c.requested) = Names

\* C3: once sync_mcp_servers has recorded status error for a name, the name
\* is not in the live map, and a process spawned by that start attempt is
\* no longer running and its resource stack has been closed.
C3_FailedStartReleased ==
    \A c \in SyncFrames : \A n \in Names :
        c.results[n].status = "error" =>
            /\ n \notin LiveNames(active_mcp_servers)
            /\ c.spawned[n] # 0 =>
                 /\ ~procs[c.spawned[n]].running
                 /\ procs[c.spawned[n]].stack = "closed"

C3_Witness ==
    \E c \in SyncFrames : \E n \in Names :
        /\ c.results[n] = [status |-> "error", error |-> "timeout"]
        /\ c.spawned[n] # 0

\* C4: when a sync_mcp_servers call returns, every name of toRemove has left
\* the live map and the process its entry owned is no longer running.
C4_RemovalReleasesProcess ==
    \A c \in SyncFrames :
        Returned(c) =>
            \A n \in c.to_remove :
                /\ n \notin LiveNames(active_mcp_servers)
                /\ c.popped[n] # 0
                /\ ~procs[c.popped[n]].running

\* C5: when a shutdown_all_servers call has ended, however the closes went,
\* the live map is empty, the catalog holds the built-in tools only, and no
\* process of a provider that was live at the call is still running.
C5_ShutdownReleasesAll ==
    \A c \in Frames :
        c.kind = "shutdown" /\ Ended(c) =>
            /\ active_mcp_servers = << >>
            /\ tool_map = BuildMap(BaseTools)
            /\ \A i \in DOMAIN c.active0 : ~procs[c.active0[i].stack].running

\* C6: during and after a sync_mcp_servers call, a name that was live when
\* the call began and is requested has the same connection as before, is
\* neither stopped nor started by the call, its resource stack is still
\* open, and a call that returns reports it connected.
C6_KeptNameUntouched ==
    \A c \in SyncFrames : \A n \in Kept(c) :
        /\ n \in LiveNames(active_mcp_servers)
        /\ Entry(active_mcp_servers, n) = Entry(c.active0, n)
        /\ procs[Entry(c.active0, n).stack].stack = "open"
        /\ c.popped[n] = 0
        /\ c.spawned[n] = 0
        /\ Returned(c) => c.results[n] = [status |-> "connected", error |-> None]

C6_Witness ==
    \E c \in SyncFrames : \E n \in Kept(c) :
        /\ Returned(c)
        /\ c.requested[n] # procs[Entry(active_mcp_servers, n).stack].command
        /\ c.to_add # {}

C8_SyncNeverRaises ==
    \A c \in SyncFrames :
        Ended(c) =>
            /\ c.outcome = "returned"
            /\ \A n \in Names :
                 Reported(c, n) <=> n \in RequestedNames(c.requested)

\* C9: when a sync_mcp_servers call has ended, every name of toRemove has
\* been taken out and closed, and every name of toAdd other than the one
\* whose start or stop failed last has been attempted and reported.
C9_FailuresIsolated ==
    \A c \in SyncFrames :
        Ended(c) =>
            /\ \A n \in c.to_remove : c.popped[n] # 0
            /\ \A n \in c.to_add \ {c.name} : Reported(c, n)

\* C10: a start attempt whose provider has stopped answering is always
\* ended by the initialization timeout.
C10_HungStartTimesOut ==
    \A t \in Tasks :
        call[t].hung => ENABLED TimeoutFires(t)

-----------------------------------------------------------------------------
(* Properties of overlapping calls *)

\* the call is suspended inside the stop or the start of provider c.name
InOperation(c) ==
    c.pc \in {"await_close", "await_spawn", "await_session", "await_init",
              "await_load", "await_cleanup"}

\* C11: when two sync_mcp_servers calls overlap, at no time are two start
\* or stop operations in progress for the same provider name.
C11_OneOperationPerName ==
    \A t, u \in DOMAIN call :
        (t # u /\ InOperation(call[t]) /\ InOperation(call[u]))
            => call[t].name # call[u].name

\* C12: a reader that runs while a sync_mcp_servers call is suspended sees
\* the live provider set of before the call or the one of after it, never
\* a set with only some of the call's removals and additions applied.
C12_ReadersSeeBeforeOrAfter ==
    \A c \in SyncFrames :
        Returned(c) =>
            c.observed \subseteq {c.current_server_names,
                                  LiveNames(active_mcp_servers)}

\* C15: after refresh_active_tools the tool list is the built-in tools
\* followed by the tools of the live providers in the order of the live
\* map, and the catalog maps every lowercased tool name to the last tool of
\* that list with this lowercased name (so a provider tool replaces a
\* built-in of the same name).
C15_CatalogLastWriterWins ==
    \A c \in Frames :
        (Returned(c) /\ c.refreshed) =>
            /\ tools = BaseTools \o ProviderTools(active_mcp_servers)
            /\ DOMAIN tool_map = {Lower(tools[i].name) : i \in DOMAIN tools}
            /\ \A k \in DOMAIN tool_map :
                 \E i \in DOMAIN tools :
                    /\ Lower(tools[i].name) = k
                    /\ \A j \in DOMAIN tools :
                          j > i => Lower(tools[j].name) # k
                    /\ tool_map[k] = tools[i]

\* a rebuild with two live providers that both list read_file, the later
\* one also a tool Pwd that shadows the built-in pwd
C15_Witness ==
    /\ \E c \in Frames : Returned(c) /\ c.refreshed
    /\ Len(active_mcp_servers) = 2
    /\ \A i \in {1, 2} :
          \E j \in DOMAIN active_mcp_servers[i].tools :
             Lower(active_mcp_servers[i].tools[j].name) = "read_file"
    /\ tool_map["read_file"].src = active_mcp_servers[2].stack
    /\ tool_map["pwd"].src = active_mcp_servers[2].stack

\* C17: whenever no sync_mcp_servers or shutdown_all_servers call is in
\* progress, tool_map is the merge of the built-in tools with the tools of
\* exactly the providers in the live map: it holds the tools of every live
\* provider and is the built-ins alone when the live map is empty.
C17_CatalogMatchesLiveMap ==
    Quiescent =>
        /\ tool_map = BuildMap(BaseTools \o ProviderTools(active_mcp_servers))
        /\ active_mcp_servers = << >> => tool_map = BuildMap(BaseTools)

\* C14: when the task that runs sync_mcp_servers was cancelled at a
\* suspension point and the call is over, every process the call spawned
\* and did not register is released, and the resource stack of every
\* provider the call took out of the live map has been closed.  A process
\* whose aclose() raised by itself is not counted here (that case is C1).
C14_CancelLeavesNoOrphan ==
    \A c \in SyncFrames :
        (c.cancelled /\ c.pc \in {"done", "cancelled"}) =>
            /\ \A n \in Names :
                 (c.spawned[n] # 0 /\ Owners(c.spawned[n]) = {}) =>
                    \/ ~procs[c.spawned[n]].running
                    \/ procs[c.spawned[n]].stack = "close_failed"
                       /\ c.pc = "done"
            /\ \A n \in Names :
                 c.popped[n] # 0 => procs[c.popped[n]].stack # "open"

-----------------------------------------------------------------------------
(* Properties of the agent loop *)

\* C13: within one iteration of _execute_run_loop every tool call of the
\* batch is resolved against the catalog that was current when the model
\* was invoked for that iteration, also when refresh_active_tools runs
\* while the batch is being dispatched.
C13_BatchResolvedInOneCatalog ==
    \A i \in DOMAIN turn.resolved_in : turn.resolved_in[i] = turn.catalog[1]

\* C18: for one user turn _execute_run_loop never performs more than
\* max_iterations model invocations, counting every call the turn makes to
\* the language model (the widget generation included).
C18_AtMostMaxInvocations ==
    turn.invocations <= max_iterations

\* C18, as the code has it: a turn invokes the tool-bound model at most
\* max_iterations times, and the structured model of the widget generation
\* at most once more, after the final reply.
C18_AtMostMaxLoopInvocations ==
    /\ turn.invocations - turn.widget_calls <= max_iterations
    /\ turn.invocations - turn.widget_calls = turn.iteration
    /\ turn.widget_calls <= 1
    /\ turn.widget_calls = 1 =>
          turn.pc \in {"await_widgets", "await_cb_response",
                       "await_cb_error_response", "done"}

\* the model gives its final reply in the last iteration allowed
C18_Witness ==
    /\ turn.pc = "done"
    /\ turn.iteration = max_iterations
    /\ turn.widget_calls = 1
    /\ turn.response = "answer_with_widgets"

\* the last reply of the model in the history
LastReply ==
    LET ai == {i \in DOMAIN messages : messages[i].role = "ai"}
    IN messages[CHOOSE i \in ai : \A j \in ai : j <= i]

\* the turn has used up max_iterations replies, the last one with tool
\* calls as well, and has returned without an exception
Exhausted ==
    /\ turn.pc = "done"
    /\ turn.outcome = "returned"
    /\ turn.iteration = max_iterations
    /\ turn.response # "error_data"
    /\ LastReply.calls # << >>

\* C19: when a turn uses up max_iterations model replies that all contain
\* tool calls, _execute_run_loop ends the turn by emitting a response event
\* with the fixed "max iterations reached" response and returns it.
C19_MaxIterationsResponse ==
    Exhausted =>
        /\ turn.response = "max_iterations_reached"
        /\ turn.callback =>
              /\ turn.events # << >>
              /\ turn.events[Len(turn.events)] =
                    [type |-> "response", content |-> "max_iterations_reached"]

\* call i of the batch in dispatch was looked up and its lowercased name
\* was not in the catalog
Unknown(i) ==
    /\ i \in DOMAIN turn.resolved_in
    /\ Lower(turn.batch[i].name) \notin DOMAIN turn.resolved_in[i]

\* the place of the model's last reply in the history
LastReplyAt ==
    LET ai == {i \in DOMAIN messages : messages[i].role = "ai"}
    IN CHOOSE i \in ai : \A j \in ai : j <= i

\* C20: a tool call whose name is absent from the catalog is answered by
\* the tool-result message "Error: Tool <name> not found" with the call's
\* identifier; the remaining calls of the batch are still dispatched, so
\* that every call of the batch is answered when the model is invoked
\* again; and the turn does not end there: after an unknown tool the turn
\* is over only when the iterations are used up or an exception ended it.
C20_UnknownToolAnswered ==
    /\ \A i \in DOMAIN turn.batch :
         Unknown(i) =>
            /\ \E j \in DOMAIN messages :
                 /\ j > LastReplyAt
                 /\ messages[j] =
                       ToolMessage([kind |-> "not_found",
                                    tool |-> Lower(turn.batch[i].name)],
                                   turn.batch[i].id,
                                   Lower(turn.batch[i].name))
            /\ turn.pc = "done" =>
                 \/ turn.iteration = max_iterations
                    /\ Len(turn.resolved_in) = Len(turn.batch)
                 \/ turn.response = "error_data"
                 \/ turn.outcome = "raised"
    /\ (turn.pc = "await_model" /\ turn.iteration > 1) =>
         \A k \in DOMAIN turn.batch :
            \E j \in DOMAIN messages :
               /\ j > LastReplyAt
               /\ messages[j].role = "tool"
               /\ messages[j].id = turn.batch[k].id

\* the first call of a batch was unknown, the second one was run, and the
\* model was invoked again
C20_Witness ==
    \E a \in DOMAIN messages :
        /\ a + 3 \in DOMAIN messages
        /\ messages[a].role = "ai"
        /\ Len(messages[a].calls) = 2
        /\ messages[a + 1].content =
              [kind |-> "not_found", tool |-> "read_file"]
        /\ messages[a + 1].id = messages[a].calls[1].id
        /\ messages[a + 2].role = "tool"
        /\ messages[a + 2].id = messages[a].calls[2].id
        /\ messages[a + 2].content.kind = "output"
        /\ messages[a + 3].role = "ai"

\* the events delivered since the last thought event that are tool_call
\* events
IsToolCall(e) == e.type = "tool_call"
CallsSinceThought ==
    LET ev == turn.events
        th == {i \in DOMAIN ev : ev[i].type = "thought"}
        last == IF th = {} THEN 0 ELSE CHOOSE i \in th : \A j \in th : j <= i
    IN SelectSeq(SubSeq(ev, last + 1, Len(ev)), IsToolCall)

\* C21: as long as no callback has failed, the events delivered in a turn
\* are, for every reply with tool calls, a thought event and then for each
\* call in the order of the batch a tool_call event directly followed by
\* the tool_result event of the same call, and last a single response
\* event; a turn that is over has delivered its response event.
C21_EventOrder ==
    LET ev == turn.events
    IN ~turn.callback_failed =>
        /\ \A i \in DOMAIN ev :
             /\ (ev[i].type = "tool_call" /\ i < Len(ev)) =>
                   ev[i + 1] = [type |-> "tool_result",
                                content |-> ev[i].content]
             /\ ev[i].type = "tool_result" =>
                   i > 1 /\ ev[i - 1] = [type |-> "tool_call",
                                         content |-> ev[i].content]
             /\ ev[i].type = "response" => i = Len(ev)
             /\ ev[i].type = "thought" =>
                   i = 1 \/ ev[i - 1].type = "tool_result"
        /\ \A j \in DOMAIN CallsSinceThought :
             /\ j \in DOMAIN turn.batch
             /\ CallsSinceThought[j].content = Lower(turn.batch[j].name)
        /\ (turn.pc = "done" /\ turn.callback) =>
             /\ ev # << >>
             /\ ev[Len(ev)].type = "response"

HasReply == \E i \in DOMAIN messages : messages[i].role = "ai"

\* the messages appended after the model's last reply
SinceReply == SubSeq(messages, LastReplyAt + 1, Len(messages))

\* C22: the tool-result messages of a batch stand in the history in the
\* order of the calls of the model's reply, and when a call is dispatched
\* the results of all calls before it are in the history.
C22_ResultsInCallOrder ==
    HasReply =>
        /\ \A j \in DOMAIN SinceReply :
             /\ SinceReply[j].role = "tool"
             /\ j \in DOMAIN LastReply.calls
             /\ SinceReply[j].id = LastReply.calls[j].id
        /\ turn.pc \in {"await_cb_tool_call", "await_tool"} =>
             Len(SinceReply) = turn.idx - 1
        /\ turn.pc = "await_cb_tool_result" => Len(SinceReply) = turn.idx

\* the second call of a batch is being run and the result of the first
\* one is the last message of the history
C22_Witness ==
    /\ turn.pc = "await_tool"
    /\ turn.idx = 2
    /\ messages[Len(messages)].role = "tool"
    /\ messages[Len(messages)].id = turn.batch[1].id

\* a tool message whose content is the text of the tool's exception
ErrorResult(m) == m.role = "tool" /\ m.content.kind = "error"

\* the step in which an awaited tool raises
ToolRaisedStep ==
    /\ turn.pc = "await_tool"
    /\ Len(messages') > Len(messages)
    /\ ErrorResult(messages'[Len(messages) + 1])

\* C23: when the invocation of a tool of the catalog raises, the error is
\* the content of the tool-result message of that call, a tool_result event
\* is emitted for it and the loop goes on with the next call; a turn ends
\* with the error response or raises only when the model or a callback
\* raised, never because a tool did.
C23_ToolErrorCaptured ==
    /\ [](/\ turn.response = "error_data" =>
               turn.model_raised \/ turn.callback_failed
          /\ turn.outcome = "raised" => turn.callback_failed)
    /\ [][/\ ToolRaisedStep =>
               /\ SubSeq(messages', 1, Len(messages)) = messages
               /\ messages'[Len(messages) + 1] =
                     ToolMessage([kind |-> "error", tool |-> turn.selected_tool],
                                 turn.batch[turn.idx].id,
                                 Lower(turn.batch[turn.idx].name))
               /\ turn'.response # "error_data"
               /\ turn'.outcome # "raised"
               /\ turn.callback =>
                     turn'.pc = "await_cb_tool_result" /\ turn'.idx = turn.idx
               /\ (~turn.callback /\ turn.idx < Len(turn.batch)) =>
                     /\ turn'.idx > turn.idx
                     /\ Len(turn'.resolved_in) > Len(turn.resolved_in)
          /\ ( /\ turn.pc = "await_cb_tool_result"
               /\ ErrorResult(messages[Len(messages)])
               /\ turn'.events # turn.events ) =>
               /\ turn'.events =
                     Append(turn.events,
                            [type |-> "tool_result",
                             content |-> Lower(turn.batch[turn.idx].name)])
               /\ turn'.response # "error_data"
               /\ turn.idx < Len(turn.batch) =>
                     turn'.pc = "await_cb_tool_call" /\ turn'.idx = turn.idx + 1
         ]_vars

\* a turn with a callback in which a tool raised, the next call of the same
\* batch was answered after it, and which returned the model's answer
C23_Witness ==
    /\ turn.callback
    /\ ~turn.callback_failed
    /\ turn.pc = "done"
    /\ turn.outcome = "returned"
    /\ turn.response \notin {None, "error_data"}
    /\ \E i \in DOMAIN messages :
         /\ ErrorResult(messages[i])
         /\ i < Len(messages)
         /\ messages[i + 1].role = "tool"
         /\ \E j \in DOMAIN turn.events :
              turn.events[j] = [type |-> "tool_result",
                                content |-> messages[i].name]

\* C24: a callback that fails does not change the course of the turn: a
\* turn in which only a callback raised (the model did not) neither ends
\* with the error response nor raises out of run, as it would not have had
\* the callback succeeded.
C24_CallbackFailureHarmless ==
    (turn.callback_failed /\ ~turn.model_raised) =>
        /\ turn.response # "error_data"
        /\ turn.outcome # "raised"

\* C25: a turn in which the invocation of the model raised is over only by
\* returning the error response, delivered as the last event when there is
\* a callback; it never raises out of run.
C25_ExceptionsBecomeResponse ==
    (turn.pc = "done" /\ turn.model_raised) =>
        /\ turn.outcome = "returned"
        /\ turn.response = "error_data"
        /\ turn.callback =>
             /\ turn.events # << >>
             /\ turn.events[Len(turn.events)] =
                   [type |-> "response", content |-> "error_data"]

\* the step in which the invocation of the model raises
ModelRaisedStep ==
    turn.pc = "await_model" /\ ~turn.model_raised /\ turn'.model_raised

\* C26: when the invocation of the model raises, the turn gets the error
\* response and the history stays what it was before that invocation, in
\* that step and up to the end of the turn.
C26_ModelFailureKeepsHistory ==
    [][/\ ModelRaisedStep =>
            /\ messages' = messages
            /\ turn'.response = "error_data"
            /\ turn'.pc = IF turn.callback THEN "await_cb_error_response"
                          ELSE "done"
       /\ turn.model_raised => messages' = messages
      ]_vars

\* the model raised in a later iteration, after tool results had been
\* appended, and the turn returned the error response
C26_Witness ==
    /\ turn.model_raised
    /\ turn.pc = "done"
    /\ turn.outcome = "returned"
    /\ turn.response = "error_data"
    /\ turn.iteration > 1
    /\ messages[Len(messages)].role = "tool"

\* C27: after any sequence of run, reset_session and update_system_prompt
\* the history is not empty and its first message is the system message
\* whose content is the current system prompt.
C27_SystemMessageFirst ==
    /\ messages # << >>
    /\ messages[1] = SystemMessage(system_prompt)

\* the prompt was updated during a turn whose messages follow the system
\* message, and the turn is over
C27_Witness ==
    /\ system_prompt # InitialPrompt
    /\ turn.pc = "done"
    /\ turn.varied > 0
    /\ Len(messages) > 2
    /\ messages[2].role = "human"

\* C28: every tool-result message of the history carries a call id that no
\* other tool-result message carries and that is the id of a tool call of an
\* assistant message standing before it in the same history, also when
\* reset_session runs while the turn is suspended.
C28_ToolResultsMatchCalls ==
    \A i \in DOMAIN messages :
        messages[i].role = "tool" =>
            /\ \A j \in DOMAIN messages \ {i} :
                 messages[j].role = "tool" => messages[j].id # messages[i].id
            /\ \E k \in 1..(i - 1) :
                 /\ messages[k].role = "ai"
                 /\ \E c \in DOMAIN messages[k].calls :
                      messages[k].calls[c].id = messages[i].id

\* C29: validate_command accepts a command exactly when, after trimming,
\* it is not empty and is either an absolute path without '..' or a name
\* without a slash that is in the allow-list; every other command is
\* rejected.
C29_AcceptsExactly ==
    client.reply.checked =>
        LET v == strip(client.sent)
            path == startswith(v, <<"/">>)
            bare == ~Contains(v, <<"/">>)
        IN (client.reply.raised = None) <=>
              /\ v # << >>
              /\ \/ path /\ ~Contains(v, <<".", ".">>)
                 \/ bare /\ v \in allowed_commands

\* a config with an entry whose command validate_command rejects
FailsValidation(data) ==
    \E n \in Entries(data) : validate_command(data[n].command).raised # None

\* C30: an mcp_config message with an entry that fails validation is
\* rejected before anything is started: sync_mcp_servers is not called, no
\* process is started or stopped, the live map and the catalog stay as they
\* are, and the client gets mcp_sync_error.
C30_InvalidConfigRejected ==
    [][( /\ client.reply # "pending"
         /\ client' # client
         /\ FailsValidation(client'.sent[1]) ) =>
            /\ client'.reply = "mcp_sync_error"
            /\ UNCHANGED <<active_mcp_servers, tools, tool_map, llm_with_tools,
                           procs, call, lastCall>>
      ]_vars

\* a config with a rejected entry arrived while a provider was live, after
\* an earlier config had been synced; the provider is still live
C30_Witness ==
    /\ client.reply = "mcp_sync_error"
    /\ client.sent # << >>
    /\ FailsValidation(client.sent[1])
    /\ \E n \in Names : client.sent[1][n].present
                        /\ validate_command(client.sent[1][n].command).raised
                              = None
    /\ call[1].pc = "done"
    /\ call[1].outcome = "returned"
    /\ active_mcp_servers # << >>

\* C31: once the process of a live provider has exited on its own the
\* provider is no longer reported connected: every name a sync_mcp_servers
\* call reports connected when it returns is a name of the live map whose
\* process is running.
C31_ExitedProviderDestroyed ==
    [][\A t \in Tasks :
         ( /\ call'[t] # call[t]
           /\ call'[t].pc = "done"
           /\ call'[t].kind = "sync"
           /\ call'[t].outcome = "returned" ) =>
            \A n \in Names :
                call'[t].results[n].status = "connected" =>
                    \E i \in DOMAIN active_mcp_servers' :
                        /\ active_mcp_servers'[i].name = n
                        /\ procs'[active_mcp_servers'[i].stack].running
      ]_vars

\* C32: when the handling of a valid mcp_config message is over the server
\* has sent three messages for it, in this order: the status message that
\* marks every requested name connecting, the status message with the final
\* status (connected or error) of every requested name and of no other, and
\* mcp_sync_success.
C32_StatusSequence ==
    ( /\ client.sent # << >>
      /\ ~FailsValidation(client.sent[1])
      /\ client.reply # "pending" ) =>
        LET data == client.sent[1]
            out == client.out
        IN /\ Len(out) = 3
           /\ out[1].type = "mcp_server_status"
           /\ \A n \in Names :
                out[1].servers[n] = IF data[n].present THEN "connecting"
                                    ELSE "none"
           /\ out[2].type = "mcp_server_status"
           /\ \A n \in Names :
                IF data[n].present
                THEN out[2].servers[n] \in {"connected", "error"}
                ELSE out[2].servers[n] = "none"
           /\ out[3].type = "mcp_sync_success"

\* the awaits of _start_single_server
StartAwaits ==
    {"await_spawn", "await_session", "await_init", "await_load",
     "await_cleanup"}

\* C33: every entry of the live map has a spawned process and the tool list
\* loaded from its session; the name whose start is in progress is not in
\* the live map, and neither is a name whose start the call has recorded as
\* failed or timed out.
C33_LiveOnlyAfterStart ==
    /\ \A i \in DOMAIN active_mcp_servers :
         LET e == active_mcp_servers[i]
         IN /\ e.stack \in DOMAIN procs
            /\ procs[e.stack].name = e.name
            /\ e.session = e.stack
            /\ e.tools \in ToolListings(e.stack)
    /\ \A c \in SyncFrames :
         /\ c.pc \in StartAwaits => c.name \notin LiveNames(active_mcp_servers)
         /\ \A n \in Names :
              c.results[n].status = "error" =>
                  n \notin LiveNames(active_mcp_servers)

\* a call has returned with one name timed out and another name connected:
\* only the second is in the live map
C33_Witness ==
    \E c \in SyncFrames : \E n, k \in Names :
        /\ Returned(c)
        /\ c.results[n] = [status |-> "error", error |-> "timeout"]
        /\ c.results[k].status = "connected"
        /\ LiveNames(active_mcp_servers) = {k}

\* C34: when a sync_mcp_servers call that no other call overlapped has
\* returned, the names it reports connected are exactly the names of the
\* live map, and no name it reports error is in the live map.
C34_ReportMatchesLiveMap ==
    \A c \in SyncFrames :
        Returned(c) =>
            /\ {n \in Names : c.results[n].status = "connected"}
                  = LiveNames(active_mcp_servers)
            /\ \A n \in Names :
                 c.results[n].status = "error" =>
                     n \notin LiveNames(active_mcp_servers)

\* a returned call that kept one provider running and failed to start the
\* other
C34_Witness ==
    \E c \in SyncFrames : \E n \in Names :
        /\ Returned(c)
        /\ Kept(c) # {}
        /\ c.results[n].status = "error"
        /\ LiveNames(active_mcp_servers) = Kept(c)

\* C35: whenever the model is invoked, every tool call of every assistant
\* message of the history has exactly one tool-result message with its id
\* after it in the history, also in a turn that follows a turn which an
\* exception ended in the middle of a batch.
C35_CallsAnsweredAtInvocation ==
    turn.pc = "await_model" =>
        \A k \in DOMAIN messages :
            messages[k].role = "ai" =>
                \A c \in DOMAIN messages[k].calls :
                    Cardinality({j \in (k + 1)..Len(messages) :
                                    /\ messages[j].role = "tool"
                                    /\ messages[j].id = messages[k].calls[c].id})
                      = 1

\* C36: once the server has answered a revoke_credentials message with
\* credentials_revoked, and until the next credentials message, the agent
\* is not authenticated with Google.
C36_RevokedMeansCleared ==
    client.reply = "credentials_revoked" => ~is_authenticated

\* C37: a GoogleAgent.run whose google_max_iterations model replies all
\* held tool calls returns the fixed message "Max iterations reached
\* without a final response."
C37_MaxIterationsMessage ==
    ( /\ google_agent.pc = "done"
      /\ result.op = "google_run"
      /\ google_agent.iteration = google_max_iterations
      /\ Len(google_agent.final_response) = google_max_iterations
      /\ \A i \in DOMAIN google_agent.final_response :
           google_agent.final_response[i] # "content" ) =>
        result = Returned_("google_run", <<"max_iterations_message">>)

\* C38: a set_llm call that fails because the provider is unknown or
\* because the test message to the new model raises leaves llm,
\* current_provider, current_model, llm_with_tools and the sub-agent's llm
\* as they were before the call.
C38_FailedSetLlmChangesNothing ==
    [][( /\ result'.op = "set_llm"
         /\ result'.outcome = "raised"
         /\ result'.value \in {<<"unknown_provider">>, <<"validation_failed">>}
       ) =>
            /\ UNCHANGED <<llm, current_provider, current_model,
                           llm_with_tools>>
            /\ google_agent'.llm = google_agent.llm
      ]_vars

\* a model had been set and bound, and the last set_llm call, for the other
\* model, failed its validation
C38_Witness ==
    /\ result = Raised("set_llm", "validation_failed")
    /\ llm = "gemini/flash"
    /\ current_provider = "gemini"
    /\ current_model = "flash"
    /\ llm_with_tools # Unbound
    /\ llm_with_tools.llm = "gemini/flash"
    /\ google_agent.llm = "gemini/flash"

\* C39: a run on an agent without a model is over by returning the
\* "No LLM configured" response, after exactly one response event with it
\* when there is a callback; no model and no tool was invoked and the
\* history is as it was.
C39_NoLlmResponse ==
    (llm = None /\ turn.pc = "done") =>
        /\ turn.outcome = "returned"
        /\ turn.response = "no_llm"
        /\ turn.callback =>
             turn.events = <<[type |-> "response", content |-> "no_llm"]>>
        /\ turn.invocations = 0
        /\ turn.widget_calls = 0
        /\ turn.resolved_in = << >>
        /\ messages = <<SystemMessage(system_prompt)>>

=============================================================================
